---- MODULE Spec2Model ----
(***************************************************************************)
(* JARVIS frontend: the route table (App.tsx), the ApiService wrapper      *)
(* around axios (services/api.ts), and the Dashboard, SystemInfo and Chat  *)
(* pages, as one state machine driven by the browser event loop.  Every    *)
(* action is one event-loop task: a navigation, a timer tick, a user       *)
(* gesture, or the settlement of one HTTP request together with the        *)
(* promise continuations it triggers.                                      *)
(***************************************************************************)
EXTENDS Integers, Sequences, FiniteSets, TLC

\* ------------------------------------------------------------------ bounds
MaxCalls == 4        \* ApiService calls issued in one run
MaxMounts == 3       \* page mounts (navigations) in one run
MaxSends == 2        \* messages sent from the Chat page in one run
MaxRequests == 2     \* calls made when the API client is exercised on its own
MaxTicks == 2        \* milliseconds the clock moves on in one run

\* --------------------------------------------------------------- JS values
\* Object-typed positions hold records, so null and undefined are records too.
Null == [null |-> TRUE]
Undefined == [undefined |-> TRUE]

\* A string is a sequence of chunks; "" is the empty sequence.
Str(s) == <<s>>
EmptyStr == <<>>

\* The texts a user types into the Chat input: empty, blank, and a text padded
\* with blanks that has a blank inside (plain texts come from the suggestions).
InputTexts == {<<>>, <<" ">>, <<" ", "a", " ", "a", " ">>}

\* String.prototype.trim : strips blanks at both ends, keeps inner ones.
RECURSIVE TrimStart(_)
TrimStart(t) ==
  IF t # <<>> /\ Head(t) = " " THEN TrimStart(Tail(t)) ELSE t

RECURSIVE TrimEnd(_)
TrimEnd(t) ==
  IF t # <<>> /\ t[Len(t)] = " " THEN TrimEnd(SubSeq(t, 1, Len(t) - 1)) ELSE t

Trim(t) == TrimEnd(TrimStart(t))

\* ------------------------------------------------------- response bodies
\* Payloads of the system endpoints (AppStatus / SystemInfo objects).
Snapshots == {[snapshot |-> "A"], [snapshot |-> "B"]}

\* Payloads of /commands/execute (CommandResponse objects).
CommandResponses ==
  {[response |-> Str("Opening Chrome"), action |-> "open_app", data |-> [app |-> "chrome"]],
   [response |-> EmptyStr, action |-> "none", data |-> Undefined]}

ExecuteUrl == "/api/v1/commands/execute"
SystemInfoUrl == "/api/v1/system/info"
SystemStatusUrl == "/api/v1/system/status"

Payloads(url) == IF url = ExecuteUrl THEN CommandResponses ELSE Snapshots

\* Envelopes {success, data?, error?} as declared by ApiResponse.
ErrorObjects ==
  {[error_code |-> "INTERNAL", message |-> Str("boom")],
   [error_code |-> "INTERNAL", message |-> EmptyStr]}

SuccessEnvelopes(url) ==
  {[success |-> TRUE, data |-> d] : d \in Payloads(url)} \cup {[success |-> TRUE]}

FailureEnvelopes ==
  {[success |-> FALSE, error |-> e] : e \in ErrorObjects} \cup {[success |-> FALSE]}

\* Bodies that are not envelopes: an HTML page of a proxy or of the framework,
\* and the empty body.
HtmlBody == [text |-> Str("<html>")]
EmptyBody == [text |-> EmptyStr]

\* JS truthiness of a response body.
Truthy(v) == v \notin {Null, Undefined, EmptyBody}

\* Property access on a body: response.success, response.data, response.error?.message
Success(body) == IF "success" \in DOMAIN body THEN body.success ELSE FALSE
Data(body) == IF "data" \in DOMAIN body THEN body.data ELSE Undefined
ErrorMessage(body) ==
  IF "error" \in DOMAIN body THEN body.error.message ELSE EmptyStr

\* ------------------------------------------------------------ axios client
\* What client.request settles with: a response (2xx), an error carrying the
\* response (other statuses), or an error without a response.
AxiosResponse(status, body) == [status |-> status, data |-> body]
Fulfilled(response) == [ok |-> TRUE, response |-> response]
Rejected(error) == [ok |-> FALSE, error |-> error]

\* Every way client.request can settle: any body under a 2xx status, any body
\* under an error status, or no response at all (network error, timeout).
Bodies(url) == SuccessEnvelopes(url) \cup FailureEnvelopes \cup {HtmlBody, EmptyBody}

AllSettlements(url) ==
  {Fulfilled(AxiosResponse(200, b)) : b \in Bodies(url)}
  \cup {Rejected([code |-> "ERR_BAD_RESPONSE", response |-> AxiosResponse(500, b)]) :
          b \in Bodies(url)}
  \cup {Rejected([code |-> c]) : c \in {"ERR_NETWORK", "ECONNABORTED"}}

\* The settlements the pages are run against: one per branch of their
\* continuations (the system pages do not read the error object).
SystemSettlements ==
  {Fulfilled(AxiosResponse(200, b)) : b \in SuccessEnvelopes(SystemStatusUrl)}
  \cup {Rejected([code |-> "ERR_BAD_RESPONSE", response |-> AxiosResponse(500, [success |-> FALSE])]),
        Rejected([code |-> "ERR_NETWORK"])}

ExecuteSettlements ==
  {Fulfilled(AxiosResponse(200, b)) : b \in SuccessEnvelopes(ExecuteUrl)}
  \cup {Rejected([code |-> "ERR_BAD_RESPONSE", response |-> AxiosResponse(500, b)]) :
          b \in FailureEnvelopes \cup {HtmlBody}}
  \cup {Rejected([code |-> "ECONNABORTED"])}

Settlements(url) == IF url = ExecuteUrl THEN ExecuteSettlements ELSE SystemSettlements

\* The interceptors installed by the constructor.
requestInterceptor(config) == config
\* The request chain's error handler; nothing ahead of it in the chain rejects.
requestErrorInterceptor(error) == error
responseInterceptor(response) == response
\* A response error handler that rejects with a new error built from the code.
errorInterceptor_rewrap(error) == [code |-> error.code]

errorInterceptor(error) == error

Intercepted(s) ==
  IF s.ok THEN Fulfilled(responseInterceptor(s.response))
  ELSE Rejected(errorInterceptor(s.error))

\* ----------------------------------------------------- ApiService.request
Resolve(value) == [resolved |-> TRUE, value |-> value]
Reject(error) == [resolved |-> FALSE, error |-> error]

HasResponseData(error) ==
  "response" \in DOMAIN error /\ Truthy(error.response.data)

\* request without the catch branch that returns error.response.data.
request_rethrow(s) ==
  IF s.ok THEN Resolve(s.response.data) ELSE Reject(s.error)

request(s) ==
  IF s.ok THEN Resolve(s.response.data)
  ELSE IF HasResponseData(s.error) THEN Resolve(s.error.response.data)
  ELSE Reject(s.error)

Config(method, url, data, params) ==
  [method |-> method, url |-> url, data |-> data, params |-> params]

executeCommand(req) == Config("POST", ExecuteUrl, req, Undefined)
getSystemInfo == Config("GET", SystemInfoUrl, Undefined, Undefined)
getSystemStatus == Config("GET", SystemStatusUrl, Undefined, Undefined)

\* Argument values of the other methods: a string, a number or an array in
\* a position that may also be left undefined.
Text(s) == [text |-> Str(s)]
Num(n) == [number |-> n]
Arr(items) == [array |-> items]

\* encodeURIComponent on the characters the modelled file paths contain.
EncodeChunk(c) ==
  CASE c = "/" -> "%2F"
    [] c = " " -> "%20"
    [] OTHER -> c
RECURSIVE Join(_)
Join(chunks) == IF chunks = <<>> THEN "" ELSE chunks[1] \o Join(Tail(chunks))
encodeURIComponent(v) == Join([k \in DOMAIN v.text |-> EncodeChunk(v.text[k])])

interpretCommand(command) ==
  Config("POST", "/api/v1/commands/interpret", [command |-> command], Undefined)
getCommandHistory == Config("GET", "/api/v1/commands/history", Undefined, Undefined)
captureScreen(region) == Config("GET", "/api/v1/system/screen/capture", Undefined, region)
analyzeScreen(query, region) ==
  Config("POST", "/api/v1/system/screen/analyze", [query |-> query, region |-> region], Undefined)

\* searchFiles that fills in defaults for the filters left out.
searchFiles_defaults(query, fileType, maxResults, searchLocations) ==
  Config("POST", "/api/v1/files/search",
         [query |-> query,
          file_type |-> fileType,
          max_results |-> IF maxResults = Undefined THEN Num(10) ELSE maxResults,
          search_locations |-> IF searchLocations = Undefined THEN Arr(<<>>) ELSE searchLocations],
         Undefined)

searchFiles(query, fileType, maxResults, searchLocations) ==
  Config("POST", "/api/v1/files/search",
         [query |-> query,
          file_type |-> fileType,
          max_results |-> maxResults,
          search_locations |-> searchLocations],
         Undefined)

getFileInfo(filePath) ==
  Config("GET", "/api/v1/files/" \o encodeURIComponent(filePath) \o "/info",
         Undefined, Undefined)

\* openFile issued as a read.
openFile_get(filePath) ==
  Config("GET", "/api/v1/files/" \o encodeURIComponent(filePath) \o "/open",
         Undefined, Undefined)

openFile(filePath) ==
  Config("POST", "/api/v1/files/" \o encodeURIComponent(filePath) \o "/open",
         Undefined, Undefined)

searchWeb(query) == Config("POST", "/api/v1/media/web/search", [query |-> query], Undefined)
searchYouTube(query, maxResults) ==
  Config("POST", "/api/v1/media/youtube/search",
         [query |-> query, max_results |-> maxResults], Undefined)
playYouTubeVideo(query) ==
  Config("POST", "/api/v1/media/youtube/play", [query |-> query], Undefined)

\* The README's "Core Endpoints" table, by the method that serves each entry;
\* <path> stands for the path segment of a file endpoint.
CoreEndpoints ==
  [executeCommand |-> [verb |-> "POST", path |-> <<"/api/v1/commands/execute">>],
   interpretCommand |-> [verb |-> "POST", path |-> <<"/api/v1/commands/interpret">>],
   getCommandHistory |-> [verb |-> "GET", path |-> <<"/api/v1/commands/history">>],
   getSystemInfo |-> [verb |-> "GET", path |-> <<"/api/v1/system/info">>],
   getSystemStatus |-> [verb |-> "GET", path |-> <<"/api/v1/system/status">>],
   captureScreen |-> [verb |-> "GET", path |-> <<"/api/v1/system/screen/capture">>],
   analyzeScreen |-> [verb |-> "POST", path |-> <<"/api/v1/system/screen/analyze">>],
   searchFiles |-> [verb |-> "POST", path |-> <<"/api/v1/files/search">>],
   getFileInfo |-> [verb |-> "GET", path |-> <<"/api/v1/files/", "<path>", "/info">>],
   openFile |-> [verb |-> "POST", path |-> <<"/api/v1/files/", "<path>", "/open">>],
   searchYouTube |-> [verb |-> "POST", path |-> <<"/api/v1/media/youtube/search">>],
   playYouTubeVideo |-> [verb |-> "POST", path |-> <<"/api/v1/media/youtube/play">>],
   searchWeb |-> [verb |-> "POST", path |-> <<"/api/v1/media/web/search">>]]

\* --------------------------------------------------------------- App.tsx
\* How <Routes> matches a route path against the location's pathname: the
\* comparison ignores letter case and any trailing slashes.
ToLowerChar(c) ==
  CASE c = "A" -> "a" [] c = "B" -> "b" [] c = "C" -> "c" [] c = "D" -> "d"
    [] c = "E" -> "e" [] c = "F" -> "f" [] c = "G" -> "g" [] c = "H" -> "h"
    [] c = "I" -> "i" [] c = "J" -> "j" [] c = "K" -> "k" [] c = "L" -> "l"
    [] c = "M" -> "m" [] c = "N" -> "n" [] c = "O" -> "o" [] c = "P" -> "p"
    [] c = "Q" -> "q" [] c = "R" -> "r" [] c = "S" -> "s" [] c = "T" -> "t"
    [] c = "U" -> "u" [] c = "V" -> "v" [] c = "W" -> "w" [] c = "X" -> "x"
    [] c = "Y" -> "y" [] c = "Z" -> "z" [] OTHER -> c

RECURSIVE ToLower(_)
ToLower(str) == IF str = "" THEN "" ELSE ToLowerChar(Head(str)) \o ToLower(Tail(str))

RECURSIVE StripTrailingSlashes(_)
StripTrailingSlashes(str) ==
  IF str # "" /\ SubSeq(str, Len(str), Len(str)) = "/"
  THEN StripTrailingSlashes(SubSeq(str, 1, Len(str) - 1))
  ELSE str

matchPath(pattern, pathname) ==
  \/ pattern = "*"
  \/ /\ pathname # ""
     /\ StripTrailingSlashes(ToLower(pathname)) = StripTrailingSlashes(ToLower(pattern))

\* The route table, in the order written.
Routes ==
  <<[path |-> "/", element |-> "Dashboard"],
    [path |-> "/chat", element |-> "Chat"],
    [path |-> "/system", element |-> "SystemInfo"],
    [path |-> "/files", element |-> "FileManager"],
    [path |-> "/voice", element |-> "VoiceControl"],
    [path |-> "/settings", element |-> "Settings"],
    [path |-> "*", element |-> "NotFound"]>>

\* The route table without its catch-all route.
Route_nofallback(path) ==
  LET matching == {k \in 1..6 : matchPath(Routes[k].path, path)}
  IN IF matching = {} THEN "none"
     ELSE Routes[CHOOSE k \in matching : \A j \in matching : k <= j].element

\* The page rendered for a location: the element of the matching route, the
\* catch-all route ranking last.
Route(path) ==
  LET matching == {k \in DOMAIN Routes : matchPath(Routes[k].path, path)}
  IN Routes[CHOOSE k \in matching : \A j \in matching : k <= j].element

\* Locations the user visits; "" is the application before its first render.
Unloaded == ""
Locations == {"/", "/system", "/files"}

\* Locations for the Chat page and a page to leave it for.
ChatLocations == {"/chat", "/files"}

\* Locations for the application shell: every routed path, two spellings the
\* router accepts for a routed path, and a path that no route matches.
ShellLocations ==
  {"/", "/chat", "/system", "/files", "/voice", "/settings", "/files/", "/Voice", "/nope"}

\* The page <Routes> renders at each location of the model.
RenderedAt ==
  [path \in ShellLocations \cup Locations \cup ChatLocations \cup {Unloaded} |-> Route(path)]

\* ------------------------------------------------------------- Layout.tsx
navigation ==
  <<[id |-> "dashboard", label |-> "Dashboard", path |-> "/"],
    [id |-> "chat", label |-> "AI Assistant", path |-> "/chat"],
    [id |-> "system", label |-> "System", path |-> "/system"],
    [id |-> "files", label |-> "Files", path |-> "/files"],
    [id |-> "voice", label |-> "Voice", path |-> "/voice"],
    [id |-> "settings", label |-> "Settings", path |-> "/settings"]>>

\* const isActive = location.pathname === item.path
isActive(item, pathname) == pathname = item.path

\* navigation.find(item => item.path === location.pathname)?.label || 'JARVIS AI'
HeaderLabel(pathname) ==
  LET found == {k \in DOMAIN navigation : navigation[k].path = pathname}
  IN IF found = {} THEN "JARVIS AI"
     ELSE navigation[CHOOSE k \in found : \A j \in found : k <= j].label

\* ------------------------------------------------------------------ state
PollIntervalMs == 5000   \* setInterval(loadDashboardData, 5000)

\* The interval timer of a Dashboard instance, and the absence of one.
setInterval(inst) == [period |-> PollIntervalMs, inst |-> inst]
NoTimer == [period |-> 0, inst |-> 0]
\* An effect clean-up that leaves the timer running.
clearInterval_noop(timer) == timer

clearInterval(timer) == NoTimer

VARIABLES
  location,        \* the current path of the router
  visited,         \* the pages rendered so far that call the API
  mounts,          \* number of page instances mounted so far; the live one is the last
  interval,        \* the Dashboard's interval timer, or NoTimer
  dashboard,       \* Dashboard state: appStatus, diagnostics, loading
  sysinfo,         \* SystemInfo state: systemInfo, appStatus, loading, refreshing
  chat,            \* Chat state: messages, input, isLoading, isListening
  calls,           \* every ApiService.request call, in the order started
  droppedUpdates,  \* state-setter calls React ignored: their component was unmounted
  layout,          \* Layout state: sidebarOpen
  fileManager,     \* FileManager state: searchQuery, selectedPath
  voiceControl,    \* VoiceControl state: isEnabled, isListening, isSpeaking, volume, rate
  settings,        \* Settings state: activeTab, settings
  now              \* Date.now(), in milliseconds

\* The state of the Layout and of the pages that hold only local state.
shell == <<layout, fileManager, voiceControl, settings>>

vars == <<location, visited, mounts, interval, dashboard, sysinfo, chat, calls, droppedUpdates,
          layout, fileManager, voiceControl, settings, now>>

page == RenderedAt[location]

MockDiagnostics == [mock |-> TRUE]

DashboardInit == [appStatus |-> Null, diagnostics |-> Null, loading |-> TRUE]

SystemInfoInit ==
  [systemInfo |-> Null, appStatus |-> Null, loading |-> TRUE, refreshing |-> FALSE]

\* The clock reading when the app is opened (a stand-in for the milliseconds
\* since 1970; an id below is the number whose decimal string the code uses).
StartTime == 1000

Greeting ==
  [id |-> 1,
   type |-> "assistant",
   content |-> Str("Hello! I'm JARVIS, your AI assistant. How can I help you today?")]

ChatInit ==
  [messages |-> <<Greeting>>, input |-> EmptyStr, isLoading |-> FALSE, isListening |-> FALSE]

LayoutInit == [sidebarOpen |-> TRUE]
FileManagerInit == [searchQuery |-> "", selectedPath |-> ""]
\* rate is held in tenths (1.0 is 10).
VoiceControlInit ==
  [isEnabled |-> TRUE, isListening |-> FALSE, isSpeaking |-> FALSE, volume |-> 75, rate |-> 10]
\* voiceVolume is held in hundredths (1.0 is 100).
SettingsInit ==
  [activeTab |-> "general",
   settings |-> [theme |-> "cyberpunk",
                 apiKey |-> "",
                 apiBase |-> "https://openrouter.ai/api/v1",
                 model |-> "openai/gpt-oss-20b:free",
                 voiceEnabled |-> TRUE,
                 voiceRate |-> 230,
                 voiceVolume |-> 100]]

\* One call of ApiService.request: who made it and its pending promise.
\* group is the index of the first call awaited together with it (Promise.all).
Call(pg, inst, group, config) ==
  [page |-> pg, inst |-> inst, group |-> group,
   config |-> requestInterceptor(config), settled |-> <<>>]

Pending(i) == calls[i].settled = <<>>

\* The promise of call i settles with s; request issues nothing further.
Settle(cs, i, s) == [cs EXCEPT ![i].settled = <<s>>]
\* What the awaiting caller receives from a settled call.
ResultOf(c) == request(Intercepted(c.settled[1]))
Result(i) == ResultOf(calls[i])

\* The pages that import apiService.  A run exercises one of them, together
\* with the pages that make no API calls: the pages share no state, and a
\* page's calls are only ever continued by the instance that made them.
ApiPages == {"Dashboard", "SystemInfo", "Chat"}

\* A component instance is live while it is the one mounted.
Live(c) == c.inst = mounts

Init ==
  /\ location = Unloaded
  /\ visited = {}
  /\ mounts = 0
  /\ interval = NoTimer
  /\ dashboard = DashboardInit
  /\ sysinfo = SystemInfoInit
  /\ chat = ChatInit
  /\ calls = <<>>
  /\ droppedUpdates = 0
  /\ layout = LayoutInit
  /\ fileManager = FileManagerInit
  /\ voiceControl = VoiceControlInit
  /\ settings = SettingsInit
  /\ now = StartTime

\* ------------------------------------------------------------- navigation
\* loadSystemInfo up to its await: setRefreshing(true), then both requests start.
SystemInfoCalls(inst, first) ==
  <<Call("SystemInfo", inst, first, getSystemInfo),
    Call("SystemInfo", inst, first, getSystemStatus)>>

\* The calls a page's mount effect starts, for the instance numbered inst.
MountCalls(pg, inst, first) ==
  CASE pg = "Dashboard" -> <<Call(pg, inst, first, getSystemStatus)>>
    [] pg = "SystemInfo" -> SystemInfoCalls(inst, first)
    [] OTHER -> <<>>

\* A route change whose unmount aborts the requests still in flight.
Navigate_abort(path) ==
  LET pg == RenderedAt[path]
      started == MountCalls(pg, mounts + 1, Len(calls) + 1)
      aborted == [i \in DOMAIN calls |->
                    IF Pending(i)
                    THEN [calls[i] EXCEPT !.settled = <<Rejected([code |-> "ERR_CANCELED"])>>]
                    ELSE calls[i]]
  IN /\ path # location
     /\ mounts < MaxMounts
     /\ Len(calls) + Len(started) <= MaxCalls
     /\ pg \in ApiPages => visited \cap ApiPages \subseteq {pg}
     /\ location' = path
     /\ visited' = visited \cup ({pg} \cap ApiPages)
     /\ mounts' = mounts + 1
     /\ interval' = IF pg = "Dashboard" THEN setInterval(mounts + 1) ELSE NoTimer
     /\ dashboard' = DashboardInit
     /\ sysinfo' = IF pg = "SystemInfo"
                   THEN [SystemInfoInit EXCEPT !.refreshing = TRUE]
                   ELSE SystemInfoInit
     /\ chat' = ChatInit
     /\ fileManager' = FileManagerInit
     /\ voiceControl' = VoiceControlInit
     /\ settings' = SettingsInit
     /\ calls' = aborted \o started
     /\ UNCHANGED <<droppedUpdates, layout, now>>

\* A route change (or the first render): the current page unmounts, its state
\* is discarded and its effect clean-up runs (Dashboard: clearInterval); the
\* new page mounts with fresh state and runs its mount effect.
Navigate(path) ==
  LET pg == RenderedAt[path]
      started == MountCalls(pg, mounts + 1, Len(calls) + 1)
  IN /\ path # location
     /\ IF location # Unloaded /\ pg = page
        THEN \* the same route still matches: its element stays mounted
             /\ location' = path
             /\ UNCHANGED <<now, visited, mounts, interval, dashboard, sysinfo, chat, calls,
                            droppedUpdates, shell>>
        ELSE /\ mounts < MaxMounts
             /\ Len(calls) + Len(started) <= MaxCalls
             /\ pg \in ApiPages => visited \cap ApiPages \subseteq {pg}
             /\ location' = path
             /\ visited' = visited \cup ({pg} \cap ApiPages)
             /\ mounts' = mounts + 1
             /\ interval' = IF pg = "Dashboard" THEN setInterval(mounts + 1)
                            ELSE IF page = "Dashboard" THEN clearInterval(interval)
                            ELSE interval
             /\ dashboard' = DashboardInit
             /\ sysinfo' = IF pg = "SystemInfo"
                           THEN [SystemInfoInit EXCEPT !.refreshing = TRUE]
                           ELSE SystemInfoInit
             /\ chat' = ChatInit
             /\ fileManager' = FileManagerInit
             /\ voiceControl' = VoiceControlInit
             /\ settings' = SettingsInit
             /\ calls' = calls \o started
             /\ UNCHANGED <<droppedUpdates, layout, now>>

\* -------------------------------------------------------------- Dashboard
\* A tick that is skipped while an earlier poll is still in flight.
DashboardTick_backpressure ==
  /\ interval # NoTimer
  /\ Len(calls) < MaxCalls
  /\ \A i \in DOMAIN calls : calls[i].page = "Dashboard" => ~Pending(i)
  /\ calls' = Append(calls, Call("Dashboard", interval.inst, Len(calls) + 1, getSystemStatus))
  /\ UNCHANGED <<now, shell, location, visited, mounts, dashboard, sysinfo, chat, droppedUpdates>>
  /\ UNCHANGED interval

\* A tick of the interval timer calls loadDashboardData of the instance that
\* set the timer; nothing else is consulted.
DashboardTick ==
  /\ interval # NoTimer
  /\ Len(calls) < MaxCalls
  /\ calls' = Append(calls, Call("Dashboard", interval.inst, Len(calls) + 1, getSystemStatus))
  /\ UNCHANGED <<now, shell, location, visited, mounts, interval, dashboard, sysinfo, chat, droppedUpdates>>

\* loadDashboardData that clears the snapshot when the fetch did not succeed.
loadDashboardData_reset(d, r) ==
  IF r.resolved
  THEN [appStatus |-> IF Success(r.value) THEN Data(r.value) ELSE Null,
        diagnostics |-> MockDiagnostics,
        loading |-> FALSE]
  ELSE [d EXCEPT !.loading = FALSE, !.appStatus = Null]

\* The rest of loadDashboardData once its request has settled with result r.
loadDashboardData(d, r) ==
  IF r.resolved
  THEN [appStatus |-> IF Success(r.value) THEN Data(r.value) ELSE d.appStatus,
        diagnostics |-> MockDiagnostics,
        loading |-> FALSE]
  ELSE [d EXCEPT !.loading = FALSE]

\* Number of setter calls the continuation makes.
DashboardSetterCalls(r) ==
  IF r.resolved THEN (IF Success(r.value) THEN 3 ELSE 2) ELSE 1

DashboardResponse(i, s) ==
  /\ i \in DOMAIN calls
  /\ calls[i].page = "Dashboard"
  /\ Pending(i)
  /\ s \in Settlements(calls[i].config.url)
  /\ calls' = Settle(calls, i, s)
  /\ LET r == request(Intercepted(s))
     IN IF Live(calls[i])
        THEN /\ dashboard' = loadDashboardData(dashboard, r)
             /\ UNCHANGED droppedUpdates
        ELSE /\ droppedUpdates' = droppedUpdates + DashboardSetterCalls(r)
             /\ UNCHANGED dashboard
  /\ UNCHANGED <<now, shell, location, visited, mounts, interval, sysinfo, chat>>

\* ------------------------------------------------------------- SystemInfo
\* A Refresh button that is shown and enabled whatever loading and refreshing are.
SystemInfoRefresh_enabled ==
  /\ page = "SystemInfo"
  /\ Len(calls) + 2 <= MaxCalls
  /\ sysinfo' = [sysinfo EXCEPT !.refreshing = TRUE]
  /\ calls' = calls \o SystemInfoCalls(mounts, Len(calls) + 1)
  /\ UNCHANGED <<now, shell, location, visited, mounts, interval, dashboard, chat, droppedUpdates>>

\* The Refresh button: rendered once loading is false, disabled while refreshing.
SystemInfoRefresh ==
  /\ page = "SystemInfo"
  /\ ~sysinfo.loading
  /\ ~sysinfo.refreshing
  /\ Len(calls) + 2 <= MaxCalls
  /\ sysinfo' = [sysinfo EXCEPT !.refreshing = TRUE]
  /\ calls' = calls \o SystemInfoCalls(mounts, Len(calls) + 1)
  /\ UNCHANGED <<now, shell, location, visited, mounts, interval, dashboard, chat, droppedUpdates>>

\* Promise.all over the two calls of a group, at the moment call i settles
\* with result r: it rejects at the first rejection, fulfils once both have
\* resolved, and otherwise stays pending (or was rejected before).
Sibling(i) == IF calls[i].group = i THEN i + 1 ELSE calls[i].group

PromiseAll(i, r) ==
  LET j == Sibling(i)
  IN IF ~r.resolved
     THEN IF Pending(j) \/ Result(j).resolved THEN "rejected" ELSE "none"
     ELSE IF ~Pending(j) /\ Result(j).resolved THEN "fulfilled" ELSE "none"

\* loadSystemInfo that ends the spinner only after a load that went through.
loadSystemInfo_spinner(st, outcome, systemResponse, statusResponse) ==
  CASE outcome = "fulfilled" ->
         [systemInfo |-> IF Success(systemResponse) THEN Data(systemResponse) ELSE st.systemInfo,
          appStatus |-> IF Success(statusResponse) THEN Data(statusResponse) ELSE st.appStatus,
          loading |-> FALSE,
          refreshing |-> FALSE]
    [] outcome = "rejected" -> [st EXCEPT !.refreshing = FALSE]
    [] OTHER -> st

\* The rest of loadSystemInfo once Promise.all has settled.
loadSystemInfo(st, outcome, systemResponse, statusResponse) ==
  CASE outcome = "fulfilled" ->
         [systemInfo |-> IF Success(systemResponse) THEN Data(systemResponse) ELSE st.systemInfo,
          appStatus |-> IF Success(statusResponse) THEN Data(statusResponse) ELSE st.appStatus,
          loading |-> FALSE,
          refreshing |-> FALSE]
    [] outcome = "rejected" -> [st EXCEPT !.loading = FALSE, !.refreshing = FALSE]
    [] OTHER -> st

SystemInfoSetterCalls(outcome, systemResponse, statusResponse) ==
  CASE outcome = "fulfilled" ->
         2 + (IF Success(systemResponse) THEN 1 ELSE 0)
           + (IF Success(statusResponse) THEN 1 ELSE 0)
    [] outcome = "rejected" -> 2
    [] OTHER -> 0

SystemInfoResponse(i, s) ==
  /\ i \in DOMAIN calls
  /\ calls[i].page = "SystemInfo"
  /\ Pending(i)
  /\ s \in Settlements(calls[i].config.url)
  /\ calls' = Settle(calls, i, s)
  /\ LET r == request(Intercepted(s))
         g == calls[i].group
         outcome == PromiseAll(i, r)
         systemResponse == IF outcome # "fulfilled" THEN Undefined
                           ELSE IF i = g THEN r.value ELSE Result(g).value
         statusResponse == IF outcome # "fulfilled" THEN Undefined
                           ELSE IF i = g THEN Result(g + 1).value ELSE r.value
     IN IF Live(calls[i])
        THEN /\ sysinfo' = loadSystemInfo(sysinfo, outcome, systemResponse, statusResponse)
             /\ UNCHANGED droppedUpdates
        ELSE /\ droppedUpdates' =
                  droppedUpdates + SystemInfoSetterCalls(outcome, systemResponse, statusResponse)
             /\ UNCHANGED sysinfo
  /\ UNCHANGED <<now, shell, location, visited, mounts, interval, dashboard, chat>>

\* ------------------------------------------------------------------- Chat
\* onChange of the text input, which is disabled while isLoading.
setInput(text) ==
  /\ page = "Chat"
  /\ ~chat.isLoading
  /\ text # chat.input
  /\ chat' = [chat EXCEPT !.input = text]
  /\ UNCHANGED <<now, shell, location, visited, mounts, interval, dashboard, sysinfo, calls, droppedUpdates>>

\* The suggested commands below the input (the first of the six; the buttons
\* differ only in their text and stay enabled while a command is processed).
Suggestions == {Str("Open Chrome")}

\* onClick={() => setInput(suggestion)}
clickSuggestion(suggestion) ==
  /\ page = "Chat"
  /\ suggestion # chat.input
  /\ chat' = [chat EXCEPT !.input = suggestion]
  /\ UNCHANGED <<now, shell, location, visited, mounts, interval, dashboard, sysinfo, calls, droppedUpdates>>

toggleVoiceListening ==
  /\ page = "Chat"
  /\ chat' = [chat EXCEPT !.isListening = ~chat.isListening]
  /\ UNCHANGED <<now, shell, location, visited, mounts, interval, dashboard, sysinfo, calls, droppedUpdates>>

\* The user message built from the raw input, without trim().
UserMessage_untrimmed(text) == [id |-> now, type |-> "user", content |-> text]

UserMessage(text) == [id |-> now, type |-> "user", content |-> Trim(text)]

\* handleSendMessage testing the raw input, not the trimmed one.
handleSendMessage_blank ==
  /\ page = "Chat"
  /\ Len(calls) < MaxCalls
  /\ Cardinality({i \in DOMAIN calls : calls[i].page = "Chat"}) < MaxSends
  /\ IF chat.input = EmptyStr \/ chat.isLoading
     THEN UNCHANGED vars
     ELSE LET userMessage == UserMessage(chat.input)
          IN /\ chat' = [chat EXCEPT !.messages = Append(chat.messages, userMessage),
                                     !.input = EmptyStr,
                                     !.isLoading = TRUE]
             /\ calls' = Append(calls,
                  Call("Chat", mounts, Len(calls) + 1,
                       executeCommand([command |-> userMessage.content, user_id |-> "user"])))
             /\ UNCHANGED <<now, shell, location, visited, mounts, interval, dashboard, sysinfo, droppedUpdates>>

\* handleSendMessage without the isLoading half of its guard.
handleSendMessage_unguarded ==
  /\ page = "Chat"
  /\ Len(calls) < MaxCalls
  /\ Cardinality({i \in DOMAIN calls : calls[i].page = "Chat"}) < MaxSends
  /\ IF Trim(chat.input) = EmptyStr
     THEN UNCHANGED vars
     ELSE LET userMessage == UserMessage(chat.input)
          IN /\ chat' = [chat EXCEPT !.messages = Append(chat.messages, userMessage),
                                     !.input = EmptyStr,
                                     !.isLoading = TRUE]
             /\ calls' = Append(calls,
                  Call("Chat", mounts, Len(calls) + 1,
                       executeCommand([command |-> userMessage.content, user_id |-> "user"])))
             /\ UNCHANGED <<now, shell, location, visited, mounts, interval, dashboard, sysinfo, droppedUpdates>>

\* handleSendMessage up to its await (send button, or Enter in the input).
handleSendMessage ==
  /\ page = "Chat"
  /\ Len(calls) < MaxCalls
  /\ Cardinality({i \in DOMAIN calls : calls[i].page = "Chat"}) < MaxSends
  /\ IF Trim(chat.input) = EmptyStr \/ chat.isLoading
     THEN UNCHANGED vars
     ELSE LET userMessage == UserMessage(chat.input)
          IN /\ chat' = [chat EXCEPT !.messages = Append(chat.messages, userMessage),
                                     !.input = EmptyStr,
                                     !.isLoading = TRUE]
             /\ calls' = Append(calls,
                  Call("Chat", mounts, Len(calls) + 1,
                       executeCommand([command |-> userMessage.content, user_id |-> "user"])))
             /\ UNCHANGED <<now, shell, location, visited, mounts, interval, dashboard, sysinfo, droppedUpdates>>

\* The assistant message that never reads response.error.
AssistantMessage_generic(r) ==
  IF r.resolved /\ Success(r.value) /\ Truthy(Data(r.value))
  THEN [id |-> now + 1,
        type |-> "assistant",
        content |-> IF Data(r.value).response # EmptyStr
                    THEN Data(r.value).response
                    ELSE Str("Command executed successfully"),
        action |-> Data(r.value).action,
        data |-> Data(r.value).data]
  ELSE [id |-> now + 1,
        type |-> "assistant",
        content |-> Str("Sorry, I encountered an error while processing your request.")]

\* The assistant message handleSendMessage builds from the result of its call.
AssistantMessage(r) ==
  IF ~r.resolved
  THEN [id |-> now + 1,
        type |-> "assistant",
        content |-> Str("Sorry, I encountered an error while processing your request.")]
  ELSE IF Success(r.value) /\ Truthy(Data(r.value))
  THEN [id |-> now + 1,
        type |-> "assistant",
        content |-> IF Data(r.value).response # EmptyStr
                    THEN Data(r.value).response
                    ELSE Str("Command executed successfully"),
        action |-> Data(r.value).action,
        data |-> Data(r.value).data]
  ELSE [id |-> now + 1,
        type |-> "assistant",
        content |-> IF ErrorMessage(r.value) # EmptyStr
                    THEN ErrorMessage(r.value)
                    ELSE Str("Sorry, something went wrong.")]

\* A continuation that shows the reply in place of the conversation so far.
ChatResponse_replace(i, s) ==
  /\ i \in DOMAIN calls
  /\ calls[i].page = "Chat"
  /\ Pending(i)
  /\ s \in Settlements(calls[i].config.url)
  /\ calls' = Settle(calls, i, s)
  /\ LET r == request(Intercepted(s))
     IN IF Live(calls[i])
        THEN /\ chat' = [chat EXCEPT !.messages = <<Greeting, AssistantMessage(r)>>,
                                     !.isLoading = FALSE]
             /\ UNCHANGED droppedUpdates
        ELSE /\ droppedUpdates' = droppedUpdates + 2
             /\ UNCHANGED chat
  /\ UNCHANGED <<now, shell, location, visited, mounts, interval, dashboard, sysinfo>>

\* The continuation without its finally block.
ChatResponse_stuck(i, s) ==
  /\ i \in DOMAIN calls
  /\ calls[i].page = "Chat"
  /\ Pending(i)
  /\ s \in Settlements(calls[i].config.url)
  /\ calls' = Settle(calls, i, s)
  /\ LET r == request(Intercepted(s))
     IN IF Live(calls[i])
        THEN /\ chat' = [chat EXCEPT !.messages = Append(chat.messages, AssistantMessage(r))]
             /\ UNCHANGED droppedUpdates
        ELSE /\ droppedUpdates' = droppedUpdates + 2
             /\ UNCHANGED chat
  /\ UNCHANGED <<now, shell, location, visited, mounts, interval, dashboard, sysinfo>>

\* handleSendMessage after its await: try / catch / finally.
ChatResponse(i, s) ==
  /\ i \in DOMAIN calls
  /\ calls[i].page = "Chat"
  /\ Pending(i)
  /\ s \in Settlements(calls[i].config.url)
  /\ calls' = Settle(calls, i, s)
  /\ LET r == request(Intercepted(s))
     IN IF Live(calls[i])
        THEN /\ chat' = [chat EXCEPT !.messages = Append(chat.messages, AssistantMessage(r)),
                                     !.isLoading = FALSE]
             /\ UNCHANGED droppedUpdates
        ELSE /\ droppedUpdates' = droppedUpdates + 2
             /\ UNCHANGED chat
  /\ UNCHANGED <<now, shell, location, visited, mounts, interval, dashboard, sysinfo>>

\* ------------------------------------------------------------------- Next
Next ==
  \/ \E path \in Locations : Navigate(path)
  \/ DashboardTick
  \/ \E i \in 1..MaxCalls, s \in SystemSettlements : DashboardResponse(i, s)
  \/ SystemInfoRefresh
  \/ \E i \in 1..MaxCalls, s \in SystemSettlements : SystemInfoResponse(i, s)

Spec == Init /\ [][Next]_vars

\* ----------------------------------------------------------- the Chat page
\* The user opens the Chat page, types, clicks suggestions, sends (button or
\* Enter), leaves for another page and comes back.
NextChat ==
  \/ \E path \in ChatLocations : Navigate(path)
  \/ \E text \in InputTexts : setInput(text)
  \/ \E suggestion \in Suggestions : clickSuggestion(suggestion)
  \/ toggleVoiceListening
  \/ handleSendMessage
  \/ \E i \in 1..MaxCalls, s \in ExecuteSettlements : ChatResponse(i, s)

SpecChat == Init /\ [][NextChat]_vars

\* Date.now() moves on by a millisecond between two events.
Tick ==
  /\ now < StartTime + MaxTicks
  /\ now' = now + 1
  /\ UNCHANGED <<shell, location, visited, mounts, interval, dashboard, sysinfo, chat, calls,
                 droppedUpdates>>

\* The Chat page with the clock running: events fall into the same or into
\* later milliseconds.
SpecClock == Init /\ [][NextChat \/ Tick]_vars

\* The three pages that call the API, each with its runs.
SpecPages == Init /\ [][Next \/ NextChat]_vars

\* Every HTTP request settles: axios gives up after its 30 s timeout at the latest.
SpecChatLive ==
  SpecChat /\ \A i \in 1..MaxCalls : WF_vars(\E s \in ExecuteSettlements : ChatResponse(i, s))

\* ------------------------------------------------- the application shell
\* The Layout and the pages that hold only local state.
\* Layout: onClick={() => setSidebarOpen(!sidebarOpen)}
setSidebarOpen ==
  /\ location # Unloaded
  /\ layout' = [layout EXCEPT !.sidebarOpen = ~layout.sidebarOpen]
  /\ UNCHANGED <<now, location, visited, mounts, interval, dashboard, sysinfo, chat, calls,
                 droppedUpdates, fileManager, voiceControl, settings>>

\* FileManager: onChange={(e) => setSearchQuery(e.target.value)}
SearchQueries == {"", "report"}

setSearchQuery(query) ==
  /\ page = "FileManager"
  /\ query # fileManager.searchQuery
  /\ fileManager' = [fileManager EXCEPT !.searchQuery = query]
  /\ UNCHANGED <<now, location, visited, mounts, interval, dashboard, sysinfo, chat, calls,
                 droppedUpdates, layout, voiceControl, settings>>

\* VoiceControl: onClick={() => setIsListening(!isListening)}, disabled={!isEnabled}
setIsListening ==
  /\ page = "VoiceControl"
  /\ voiceControl.isEnabled
  /\ voiceControl' = [voiceControl EXCEPT !.isListening = ~voiceControl.isListening]
  /\ UNCHANGED <<now, location, visited, mounts, interval, dashboard, sysinfo, chat, calls,
                 droppedUpdates, layout, fileManager, settings>>

\* VoiceControl: onClick={() => setIsEnabled(!isEnabled)}
setIsEnabled ==
  /\ page = "VoiceControl"
  /\ voiceControl' = [voiceControl EXCEPT !.isEnabled = ~voiceControl.isEnabled]
  /\ UNCHANGED <<now, location, visited, mounts, interval, dashboard, sysinfo, chat, calls,
                 droppedUpdates, layout, fileManager, settings>>

\* VoiceControl: the volume slider, disabled={!isEnabled}
Volumes == {0, 75, 100}

setVolume(v) ==
  /\ page = "VoiceControl"
  /\ voiceControl.isEnabled
  /\ v # voiceControl.volume
  /\ voiceControl' = [voiceControl EXCEPT !.volume = v]
  /\ UNCHANGED <<now, location, visited, mounts, interval, dashboard, sysinfo, chat, calls,
                 droppedUpdates, layout, fileManager, settings>>

\* Settings: onClick={() => setActiveTab(tab.id)}
tabs == <<"general", "ai", "voice", "system">>

setActiveTab(id) ==
  /\ page = "Settings"
  /\ id # settings.activeTab
  /\ settings' = [settings EXCEPT !.activeTab = id]
  /\ UNCHANGED <<now, location, visited, mounts, interval, dashboard, sysinfo, chat, calls,
                 droppedUpdates, layout, fileManager, voiceControl>>

\* The API keys a user types into the password field of the AI tab.
ApiKeys == {"", "sk-A", "sk-B"}

\* An API key field that also keeps what is typed where the rest of the
\* application can read it.
setApiKey_leak(key) ==
  /\ page = "Settings"
  /\ settings.activeTab = "ai"
  /\ key # settings.settings.apiKey
  /\ settings' = [settings EXCEPT !.settings.apiKey = key]
  /\ fileManager' = [fileManager EXCEPT !.selectedPath = key]
  /\ UNCHANGED <<now, location, visited, mounts, interval, dashboard, sysinfo, chat, calls,
                 droppedUpdates, layout, voiceControl>>

\* Settings: onChange={(e) => setSettings({ ...settings, apiKey: e.target.value })}
setApiKey(key) ==
  /\ page = "Settings"
  /\ settings.activeTab = "ai"
  /\ key # settings.settings.apiKey
  /\ settings' = [settings EXCEPT !.settings.apiKey = key]
  /\ UNCHANGED <<now, location, visited, mounts, interval, dashboard, sysinfo, chat, calls,
                 droppedUpdates, layout, fileManager, voiceControl>>

\* Settings: "Save Settings" and "Reset to Defaults" have no onClick handler.
clickSaveSettings ==
  /\ page = "Settings"
  /\ UNCHANGED vars

\* How the server answers while the shell is exercised: with a snapshot, or
\* not at all.
ShellSettlements ==
  {Fulfilled(AxiosResponse(200, [success |-> TRUE, data |-> [snapshot |-> "A"]])),
   Rejected([code |-> "ERR_NETWORK"])}

\* The user moves through every location and uses the Layout, FileManager,
\* VoiceControl and Settings; Dashboard and SystemInfo do what they do unasked.
NextShell ==
  \/ \E path \in ShellLocations : Navigate(path)
  \/ setSidebarOpen
  \/ \E query \in SearchQueries : setSearchQuery(query)
  \/ setIsListening
  \/ setIsEnabled
  \/ \E v \in Volumes : setVolume(v)
  \/ \E id \in {tabs[k] : k \in DOMAIN tabs} : setActiveTab(id)
  \/ \E key \in ApiKeys : setApiKey(key)
  \/ clickSaveSettings
  \/ DashboardTick
  \/ \E i \in 1..MaxCalls, s \in ShellSettlements : DashboardResponse(i, s)
  \/ \E i \in 1..MaxCalls, s \in ShellSettlements : SystemInfoResponse(i, s)

SpecShell == Init /\ [][NextShell]_vars

\* ------------------------------------------- the API client on its own
\* The requests the modelled methods build, for any caller.
Commands == {Trim(t) : t \in InputTexts} \ {EmptyStr}

ApiConfigs ==
  {executeCommand([command |-> c, user_id |-> "user"]) : c \in Commands}
  \cup {getSystemInfo, getSystemStatus}

\* A caller invokes a method of apiService: request issues one HTTP request.
ApiCall(config) ==
  /\ Len(calls) < MaxRequests
  /\ calls' = Append(calls, Call("client", 0, Len(calls) + 1, config))
  /\ UNCHANGED <<now, shell, location, visited, mounts, interval, dashboard, sysinfo, chat, droppedUpdates>>

\* The HTTP request of call i settles in any of the ways axios can report.
ApiSettle(i, s) ==
  /\ i \in DOMAIN calls
  /\ calls[i].page = "client"
  /\ Pending(i)
  /\ s \in AllSettlements(calls[i].config.url)
  /\ calls' = Settle(calls, i, s)
  /\ UNCHANGED <<now, shell, location, visited, mounts, interval, dashboard, sysinfo, chat, droppedUpdates>>

NextRequest ==
  \/ \E config \in ApiConfigs : ApiCall(config)
  \/ \E i \in 1..MaxRequests, s \in UNION {AllSettlements(c.url) : c \in ApiConfigs} :
       ApiSettle(i, s)

SpecRequest == Init /\ [][NextRequest]_vars

\* ------------------------------------------ the methods of the API client
\* Argument values for the methods behind the documented endpoints.
Queries == {Text("report")}
FileTypes == {Undefined, Text("pdf")}
MaxResults == {Undefined, Num(10)}
SearchLocations == {Undefined, Arr(<<Text("/home")>>)}
Regions == {Undefined, [x |-> Num(0), y |-> Num(0), width |-> Num(640), height |-> Num(480)]}
FilePaths ==
  {[text |-> <<"a.txt">>], [text |-> <<"docs", "/", "a.txt">>], [text |-> <<"my", " ", "file">>]}

\* A call of one method with its arguments, and the request config it builds.
Invocation(via, args, config) == [via |-> via, args |-> args, config |-> config]

Invocations ==
  {Invocation("executeCommand", <<[command |-> c, user_id |-> "user"]>>,
              executeCommand([command |-> c, user_id |-> "user"])) : c \in Commands}
  \cup {Invocation("interpretCommand", <<q>>, interpretCommand(q)) : q \in Queries}
  \cup {Invocation("getCommandHistory", <<>>, getCommandHistory),
        Invocation("getSystemInfo", <<>>, getSystemInfo),
        Invocation("getSystemStatus", <<>>, getSystemStatus)}
  \cup {Invocation("captureScreen", <<r>>, captureScreen(r)) : r \in Regions}
  \cup {Invocation("analyzeScreen", <<q, r>>, analyzeScreen(q, r)) : q \in Queries, r \in Regions}
  \cup {Invocation("searchFiles", <<q, ft, mr, sl>>, searchFiles(q, ft, mr, sl)) :
          q \in Queries, ft \in FileTypes, mr \in MaxResults, sl \in SearchLocations}
  \cup {Invocation("getFileInfo", <<f>>, getFileInfo(f)) : f \in FilePaths}
  \cup {Invocation("openFile", <<f>>, openFile(f)) : f \in FilePaths}
  \cup {Invocation("searchYouTube", <<q, mr>>, searchYouTube(q, mr)) :
          q \in Queries, mr \in MaxResults}
  \cup {Invocation("playYouTubeVideo", <<q>>, playYouTubeVideo(q)) : q \in Queries}
  \cup {Invocation("searchWeb", <<q>>, searchWeb(q)) : q \in Queries}

\* A caller invokes a method: the method hands its config to request, which
\* issues one HTTP request; the call is recorded with the method and arguments.
ApiInvoke(inv) ==
  /\ Len(calls) < MaxRequests
  /\ calls' = Append(calls, Call("client", 0, Len(calls) + 1, inv.config)
                              @@ [via |-> inv.via, args |-> inv.args])
  /\ UNCHANGED <<now, shell, location, visited, mounts, interval, dashboard, sysinfo, chat, droppedUpdates>>

NextMethods == \E inv \in Invocations : ApiInvoke(inv)

SpecMethods == Init /\ [][NextMethods]_vars

\* ================================================================ claims

\* C1: every send the Chat page accepts (input non-blank after trimming, not
\* loading) appends the user message and issues exactly one
\* POST /api/v1/commands/execute with body {command: trimmed input,
\* user_id: 'user'}; no other step issues an execute request, so a settlement
\* of any kind (success, success=false, rejection) is never followed by a retry.
C1_OneRequestPerAcceptedSend ==
  [][LET sent == /\ Len(chat'.messages) = Len(chat.messages) + 1
                 /\ chat'.messages[Len(chat'.messages)].type = "user"
         executeBefore == {i \in DOMAIN calls : calls[i].config.url = ExecuteUrl}
         executeAfter == {i \in DOMAIN calls' : calls'[i].config.url = ExecuteUrl}
     IN /\ sent =>
             /\ page = "Chat"
             /\ Trim(chat.input) # EmptyStr
             /\ ~chat.isLoading
             /\ calls' = Append(calls,
                   [page |-> "Chat", inst |-> mounts, group |-> Len(calls) + 1,
                    config |-> [method |-> "POST",
                                url |-> "/api/v1/commands/execute",
                                data |-> [command |-> Trim(chat.input), user_id |-> "user"],
                                params |-> Undefined],
                    settled |-> <<>>])
        /\ ~sent => executeAfter = executeBefore
        /\ \A i \in executeBefore : calls'[i].config = calls[i].config
    ]_vars

\* A message whose request was rejected, with still one execute request made.
C1_Witness ==
  /\ page = "Chat"
  /\ Len(chat.messages) = 3
  /\ Cardinality({i \in DOMAIN calls : calls[i].config.url = ExecuteUrl}) = 1
  /\ \E i \in DOMAIN calls :
       calls[i].page = "Chat" /\ ~Pending(i) /\ ~Result(i).resolved

C3_RequestNormalizes ==
  [][\A i \in DOMAIN calls :
       (calls[i].settled = <<>> /\ calls'[i].settled # <<>>) =>
         LET s == calls'[i].settled[1]
             r == ResultOf(calls'[i])
             answered == s.ok \/ "response" \in DOMAIN s.error
             body == IF s.ok THEN s.response.data
                     ELSE IF answered THEN s.error.response.data ELSE EmptyBody
             hasBody == answered /\ body # EmptyBody
         IN /\ Len(calls') = Len(calls)
            /\ \A j \in DOMAIN calls : j # i => calls'[j] = calls[j]
            /\ hasBody => r = [resolved |-> TRUE, value |-> body]
            /\ (~s.ok /\ ~hasBody) => r = [resolved |-> FALSE, error |-> s.error]
            /\ ~r.resolved => (~s.ok /\ ~hasBody)
    ]_vars

\* An error status whose body was returned, and a failure that was rethrown.
C3_Witness ==
  /\ \E i \in DOMAIN calls :
       /\ ~Pending(i) /\ ~calls[i].settled[1].ok
       /\ Result(i).resolved /\ Result(i).value = HtmlBody
  /\ \E i \in DOMAIN calls :
       /\ ~Pending(i) /\ ~Result(i).resolved
       /\ "response" \in DOMAIN calls[i].settled[1].error

\* C4: every value an ApiService call resolves with has a boolean success
\* field, on the 2xx path and on the error-status path.
C4_ResolvedValueIsEnvelope ==
  \A i \in DOMAIN calls :
    (~Pending(i) /\ Result(i).resolved) =>
      /\ "success" \in DOMAIN Result(i).value
      /\ Result(i).value.success \in BOOLEAN


\* C5: a Dashboard mount starts one getSystemStatus fetch and an interval
\* timer of 5000 ms owned by that instance; apart from mounts, a Dashboard
\* fetch starts only as one tick of the live instance's timer; leaving the
\* Dashboard clears the timer, so no fetch starts for an unmounted Dashboard.
C5_DashboardPolling ==
  [][LET started == {i \in DOMAIN calls' : calls'[i].page = "Dashboard"}
                      \ {i \in DOMAIN calls : calls[i].page = "Dashboard"}
         mounting == RenderedAt[location'] = "Dashboard" /\ mounts' = mounts + 1
         fetch == [page |-> "Dashboard", inst |-> mounts', group |-> Len(calls) + 1,
                   config |-> [method |-> "GET", url |-> "/api/v1/system/status",
                               data |-> Undefined, params |-> Undefined],
                   settled |-> <<>>]
     IN /\ mounting => /\ calls' = Append(calls, fetch)
                       /\ interval' = [period |-> 5000, inst |-> mounts']
        /\ (started # {} /\ ~mounting) =>
             /\ page = "Dashboard"
             /\ location' = location /\ mounts' = mounts
             /\ interval = [period |-> 5000, inst |-> mounts]
             /\ interval' = interval
             /\ calls' = Append(calls, fetch)
        /\ RenderedAt[location'] # "Dashboard" => interval' = NoTimer /\ started = {}
    ]_vars

\* A Dashboard that polled at least once beyond its mount and was then left.
C5_Witness ==
  /\ page # "Dashboard"
  /\ interval = NoTimer
  /\ Cardinality({i \in DOMAIN calls : calls[i].page = "Dashboard"}) >= 2

\* C6: the Dashboard's appStatus is the data of the most recently started
\* fetch of the mounted instance among those completed with success=true
\* (null while there is none).
C6_LatestStartedFetchWins ==
  page = "Dashboard" =>
    LET ok == {i \in DOMAIN calls :
                 /\ calls[i].page = "Dashboard" /\ Live(calls[i]) /\ ~Pending(i)
                 /\ Result(i).resolved /\ Success(Result(i).value)}
        latest == CHOOSE i \in ok : \A j \in ok : j <= i
    IN dashboard.appStatus = IF ok = {} THEN Null ELSE Data(Result(latest).value)

\* C7: once a load of the SystemInfo page has finished, systemInfo is the data
\* of the latest successful getSystemInfo call of the mounted instance and
\* appStatus that of its latest successful getSystemStatus call, whatever
\* became of the other call.
C7_EachSnapshotFromOwnEndpoint ==
  (page = "SystemInfo" /\ ~sysinfo.refreshing) =>
    LET ok(url) == {i \in DOMAIN calls :
                      /\ calls[i].page = "SystemInfo" /\ Live(calls[i])
                      /\ calls[i].config.url = url /\ ~Pending(i)
                      /\ Result(i).resolved /\ Success(Result(i).value)}
        latest(url) == CHOOSE i \in ok(url) : \A j \in ok(url) : j <= i
        held(url) == IF ok(url) = {} THEN Null ELSE Data(Result(latest(url)).value)
    IN /\ sysinfo.systemInfo = held(SystemInfoUrl)
       /\ sysinfo.appStatus = held(SystemStatusUrl)

\* C8: within one page instance, a fetch that fails (rejects, or resolves
\* without success=true) leaves the snapshot of its endpoint as it was, and a
\* snapshot changes only to the data of a call of that endpoint that resolved
\* with success=true; a held snapshot never goes back to null.
C8_FailureKeepsSnapshot ==
  [][mounts' = mounts =>
       LET settledNow(i) == calls[i].settled = <<>> /\ calls'[i].settled # <<>>
           failed(i) == ~ResultOf(calls'[i]).resolved \/ ~Success(ResultOf(calls'[i]).value)
           succeeded(i, pg, url, v) ==
             /\ calls'[i].page = pg /\ calls'[i].inst = mounts
             /\ calls'[i].config.url = url /\ calls'[i].settled # <<>>
             /\ ResultOf(calls'[i]).resolved /\ Success(ResultOf(calls'[i]).value)
             /\ v = Data(ResultOf(calls'[i]).value)
       IN /\ \A i \in DOMAIN calls :
               (settledNow(i) /\ failed(i)) =>
                 /\ calls[i].page = "Dashboard" => dashboard'.appStatus = dashboard.appStatus
                 /\ (calls[i].page = "SystemInfo" /\ calls[i].config.url = SystemInfoUrl) =>
                      sysinfo'.systemInfo = sysinfo.systemInfo
                 /\ (calls[i].page = "SystemInfo" /\ calls[i].config.url = SystemStatusUrl) =>
                      sysinfo'.appStatus = sysinfo.appStatus
          /\ dashboard'.appStatus # dashboard.appStatus =>
               \E i \in DOMAIN calls :
                 settledNow(i) /\ succeeded(i, "Dashboard", SystemStatusUrl, dashboard'.appStatus)
          /\ sysinfo'.systemInfo # sysinfo.systemInfo =>
               /\ \E i \in DOMAIN calls : settledNow(i)
               /\ \E i \in DOMAIN calls :
                    succeeded(i, "SystemInfo", SystemInfoUrl, sysinfo'.systemInfo)
          /\ sysinfo'.appStatus # sysinfo.appStatus =>
               /\ \E i \in DOMAIN calls : settledNow(i)
               /\ \E i \in DOMAIN calls :
                    succeeded(i, "SystemInfo", SystemStatusUrl, sysinfo'.appStatus)
          /\ dashboard.appStatus # Null => dashboard'.appStatus # Null
          /\ sysinfo.systemInfo # Null => sysinfo'.systemInfo # Null
          /\ sysinfo.appStatus # Null => sysinfo'.appStatus # Null
    ]_vars

\* A Dashboard holding a snapshot although one of its fetches failed.
C8_Witness ==
  /\ page = "Dashboard"
  /\ dashboard.appStatus \in Snapshots
  /\ \E i \in DOMAIN calls :
       /\ calls[i].page = "Dashboard" /\ Live(calls[i]) /\ ~Pending(i)
       /\ (~Result(i).resolved \/ ~Success(Result(i).value))

\* C9: while the Dashboard's timer runs, a tick can always start a new
\* getSystemStatus request, however many earlier polls are still in flight
\* (up to the bound on calls of the run).
C9_NoBackpressure ==
  (interval # NoTimer /\ Len(calls) < MaxCalls) => ENABLED DashboardTick

\* Two polls of the mounted Dashboard in flight at the same time.
C9_Witness ==
  /\ page = "Dashboard"
  /\ Cardinality({i \in DOMAIN calls :
                    calls[i].page = "Dashboard" /\ Live(calls[i]) /\ Pending(i)}) >= 2

\* C10: a navigation leaves every call made so far as it is, in flight ones
\* included, and stops only the Dashboard's timer; a call whose page instance
\* is gone still settles, its continuation makes its setter calls (counted as
\* ignored by React) and no page state changes.
C10_NoCancellation ==
  [][/\ mounts' # mounts =>
          /\ \A i \in DOMAIN calls : calls'[i] = calls[i]
          /\ droppedUpdates' = droppedUpdates
          /\ (page # "Dashboard" /\ RenderedAt[location'] # "Dashboard") => interval' = interval
     /\ \A i \in DOMAIN calls :
          (calls[i].settled = <<>> /\ calls'[i].settled # <<>> /\ calls[i].inst # mounts) =>
            LET r == ResultOf(calls'[i])
                j == IF calls[i].group = i THEN i + 1 ELSE calls[i].group
                allSettles ==
                  IF r.resolved
                  THEN calls[j].settled # <<>> /\ ResultOf(calls[j]).resolved
                  ELSE calls[j].settled = <<>> \/ ResultOf(calls[j]).resolved
            IN /\ dashboard' = dashboard /\ sysinfo' = sysinfo /\ chat' = chat
               /\ interval' = interval
               /\ calls[i].page \in {"Dashboard", "Chat"} => droppedUpdates' > droppedUpdates
               /\ (calls[i].page = "SystemInfo" /\ allSettles) =>
                    droppedUpdates' >= droppedUpdates + 2
    ]_vars

\* A continuation that ran after its page had been left.
C10_Witness ==
  /\ droppedUpdates > 0
  /\ \E i \in DOMAIN calls : ~Live(calls[i]) /\ ~Pending(i)


\* C11: a call of searchFiles issues exactly one request, a POST to
\* /api/v1/files/search whose body carries query, file_type, max_results and
\* search_locations exactly as given, a filter left out staying undefined,
\* and which has no query-string parameters.
C11_SearchFilesRequest ==
  [][LET n == Len(calls')
     IN (calls' # calls /\ calls'[n].via = "searchFiles") =>
          /\ calls' = Append(calls, calls'[n])
          /\ calls'[n].settled = <<>>
          /\ calls'[n].config =
               [method |-> "POST",
                url |-> "/api/v1/files/search",
                data |-> [query |-> calls'[n].args[1],
                          file_type |-> calls'[n].args[2],
                          max_results |-> calls'[n].args[3],
                          search_locations |-> calls'[n].args[4]],
                params |-> [undefined |-> TRUE]]
    ]_vars

\* searchFiles called with the query alone, and called with every filter.
C11_Witness ==
  /\ \E i \in DOMAIN calls :
       /\ calls[i].via = "searchFiles"
       /\ \A k \in 2..4 : calls[i].args[k] = Undefined
  /\ \E i \in DOMAIN calls :
       /\ calls[i].via = "searchFiles"
       /\ \A k \in 2..4 : calls[i].args[k] # Undefined

\* C12: every request of a method behind a README core endpoint uses the
\* documented HTTP method and the documented path, <path> being the
\* URI-encoded file path given (one path segment).
C12_DocumentedEndpoints ==
  \A i \in DOMAIN calls :
    LET c == calls[i]
        doc == CoreEndpoints[c.via]
    IN /\ c.via \in DOMAIN CoreEndpoints
       /\ c.config.method = doc.verb
       /\ IF Len(doc.path) = 1
          THEN c.config.url = doc.path[1]
          ELSE LET given == c.args[1].text
                   segment == CASE given = <<"a.txt">> -> "a.txt"
                                [] given = <<"docs", "/", "a.txt">> -> "docs%2Fa.txt"
                                [] given = <<"my", " ", "file">> -> "my%20file"
               IN c.config.url = doc.path[1] \o segment \o doc.path[3]

\* A file endpoint called with a path holding a separator, next to a media one.
C12_Witness ==
  /\ \E i \in DOMAIN calls :
       calls[i].via = "openFile" /\ calls[i].args[1] = [text |-> <<"docs", "/", "a.txt">>]
  /\ \E i \in DOMAIN calls : calls[i].via = "searchYouTube"


\* The feature routes (the first six of the table) whose path matches a location.
MatchingRoutes ==
  [path \in ShellLocations |-> {k \in 1..6 : matchPath(Routes[k].path, path)}]

\* C13: the six routed paths render their six pages; at every location one
\* page is rendered, no two of the six routes match the same location, and a
\* location that none of the six routes matches renders NotFound.
C13_RouteTable ==
  location # Unloaded =>
    LET matched == MatchingRoutes[location]
    IN /\ location = "/" => page = "Dashboard"
       /\ location = "/chat" => page = "Chat"
       /\ location = "/system" => page = "SystemInfo"
       /\ location = "/files" => page = "FileManager"
       /\ location = "/voice" => page = "VoiceControl"
       /\ location = "/settings" => page = "Settings"
       /\ page \in {"Dashboard", "Chat", "SystemInfo", "FileManager", "VoiceControl",
                    "Settings", "NotFound"}
       /\ Cardinality(matched) <= 1
       /\ matched = {} <=> page = "NotFound"
       /\ \A k \in matched : page = Routes[k].element

\* NotFound rendered for an unrouted location after a routed page was shown.
C13_Witness ==
  /\ location = "/nope"
  /\ page = "NotFound"
  /\ mounts >= 2

\* C14: each of the six feature pages, once mounted and used, has issued at
\* least one ApiService request, and shows what a successful response held.
C14_EveryPageFetches ==
  LET used ==
        CASE page = "Dashboard" -> TRUE
          [] page = "SystemInfo" -> TRUE
          [] page = "Chat" -> Len(chat.messages) > 1
          [] page = "FileManager" -> fileManager # FileManagerInit
          [] page = "VoiceControl" -> voiceControl # VoiceControlInit
          [] page = "Settings" -> settings # SettingsInit
          [] OTHER -> FALSE
  IN used =>
       /\ \E i \in DOMAIN calls : calls[i].page = page /\ Live(calls[i])
       /\ page = "Dashboard" =>
            ((\E i \in DOMAIN calls :
                /\ calls[i].page = page /\ Live(calls[i]) /\ ~Pending(i)
                /\ Result(i).resolved /\ Success(Result(i).value))
             => dashboard.appStatus # Null)

C18_ActiveItemIsRenderedPage ==
  location # Unloaded =>
    LET active == {k \in DOMAIN navigation : isActive(navigation[k], location)}
        routed == {Routes[k].path : k \in 1..6}
    IN /\ Cardinality(active) <= 1
       /\ \A k \in DOMAIN navigation : navigation[k].path \in routed
       /\ page # "NotFound" =>
            \E k \in DOMAIN navigation :
              /\ active = {k}
              /\ RenderedAt[navigation[k].path] = page
              /\ HeaderLabel(location) = navigation[k].label
       /\ page = "NotFound" => (active = {} /\ HeaderLabel(location) = "JARVIS AI")


\* C15: the interceptors only log: every request reaches axios with the
\* config its method built, every response and every error reaches
\* ApiService.request as axios produced it (fulfilled stays fulfilled with the
\* same response, rejected stays rejected with the same error).
C15_InterceptorsOnlyLog ==
  \A i \in DOMAIN calls :
    /\ calls[i].config \in ApiConfigs
    /\ calls[i].settled # <<>> =>
         LET s == calls[i].settled[1]
         IN /\ Intercepted(s) = s
            /\ s.ok => responseInterceptor(s.response) = s.response
            /\ ~s.ok => /\ errorInterceptor(s.error) = s.error
                        /\ requestErrorInterceptor(s.error) = s.error
            /\ ResultOf(calls[i]) = request(s)

\* A response and an error carrying a response both passed the interceptors.
C15_Witness ==
  /\ \E i \in DOMAIN calls : calls[i].settled # <<>> /\ calls[i].settled[1].ok
  /\ \E i \in DOMAIN calls :
       /\ calls[i].settled # <<>>
       /\ ~calls[i].settled[1].ok
       /\ "response" \in DOMAIN calls[i].settled[1].error

\* C17: when a Chat command request resolves with an envelope whose success is
\* true, the assistant message appended for it is not an error bubble, and when
\* the envelope carries data it shows data.response with the returned action
\* and data attached.
C17_SuccessShowsResponse ==
  [][\A i \in DOMAIN calls :
       (/\ calls[i].page = "Chat" /\ calls[i].inst = mounts
        /\ calls[i].settled = <<>> /\ calls'[i].settled # <<>>) =>
         LET r == ResultOf(calls'[i])
             m == chat'.messages[Len(chat'.messages)]
         IN (r.resolved /\ Success(r.value)) =>
              /\ chat'.messages = Append(chat.messages, m)
              /\ m.type = "assistant"
              /\ m.content \notin
                   {Str("Sorry, something went wrong."),
                    Str("Sorry, I encountered an error while processing your request.")}
              /\ Truthy(Data(r.value)) =>
                   /\ m.content = Data(r.value).response
                   /\ "action" \in DOMAIN m /\ m.action = Data(r.value).action
                   /\ "data" \in DOMAIN m /\ m.data = Data(r.value).data
    ]_vars

\* The Chat command requests of page instance n that are still in flight.
PendingCommands(n) ==
  {i \in DOMAIN calls : calls[i].page = "Chat" /\ calls[i].inst = n /\ Pending(i)}

\* C19 (as stated): at most one Chat command request is in flight at any time.
C19_OneCommandInFlight ==
  Cardinality({i \in DOMAIN calls : calls[i].page = "Chat" /\ Pending(i)}) <= 1

\* C19 (amended): each mounted instance of the Chat page has at most one
\* command request in flight, and the mounted one shows isLoading exactly
\* while it has one; requests of instances the user has left stay in flight
\* beside it.
C19_OneCommandInFlightPerInstance ==
  /\ \A n \in 1..mounts : Cardinality(PendingCommands(n)) <= 1
  /\ page = "Chat" => (chat.isLoading <=> PendingCommands(mounts) # {})

\* A request is in flight, a suggestion has filled the input (so only the
\* guard of handleSendMessage holds the next send back), and a request of an
\* earlier instance of the page is still in flight as well.
C19_Witness ==
  /\ page = "Chat"
  /\ chat.isLoading
  /\ Trim(chat.input) # EmptyStr
  /\ Cardinality(PendingCommands(mounts)) = 1
  /\ \E n \in 1..(mounts - 1) : PendingCommands(n) # {}

\* After the greeting the list goes user, assistant, user, assistant, ...
Alternates(messages) ==
  \A k \in DOMAIN messages :
    messages[k].type = (IF k % 2 = 0 THEN "user" ELSE "assistant")

\* C20 (as stated): every Chat command request that settles gets exactly one
\* assistant message appended to the message list, directly after its user
\* message, and leaves the page out of the loading state.
C20_EverySendAnswered ==
  [][\A i \in DOMAIN calls :
       (calls[i].page = "Chat" /\ calls[i].settled = <<>> /\ calls'[i].settled # <<>>) =>
         /\ Len(chat'.messages) = Len(chat.messages) + 1
         /\ chat'.messages[Len(chat'.messages)].type = "assistant"
         /\ chat.messages[Len(chat.messages)].type = "user"
         /\ ~chat'.isLoading
    ]_vars

\* C20 (amended): a send whose page instance is still mounted when its request
\* settles gets exactly one assistant message, directly after its user message,
\* and isLoading returns to false; a settlement for an instance that was left
\* changes nothing on the page.  The list always alternates user, assistant
\* after the greeting, it ends with an unanswered user message exactly while
\* isLoading, and the loading state always ends.
C20_AnsweredWhileMounted ==
  /\ [][\A i \in DOMAIN calls :
          (calls[i].page = "Chat" /\ calls[i].settled = <<>> /\ calls'[i].settled # <<>>) =>
            IF calls[i].inst = mounts
            THEN /\ Len(chat'.messages) = Len(chat.messages) + 1
                 /\ SubSeq(chat'.messages, 1, Len(chat.messages)) = chat.messages
                 /\ chat'.messages[Len(chat'.messages)].type = "assistant"
                 /\ chat.messages[Len(chat.messages)].type = "user"
                 /\ chat.isLoading /\ ~chat'.isLoading
            ELSE chat' = chat
       ]_vars
  /\ [](/\ chat.messages[1] = Greeting
        /\ Alternates(chat.messages)
        /\ chat.isLoading <=> chat.messages[Len(chat.messages)].type = "user")
  /\ (chat.isLoading ~> ~chat.isLoading)

\* Two sends of one page instance, both answered, the first with the command's
\* reply and the second after a failure.
C20_Witness ==
  /\ page = "Chat"
  /\ Len(chat.messages) = 5
  /\ ~chat.isLoading
  /\ Cardinality({i \in DOMAIN calls :
                    calls[i].page = "Chat" /\ Live(calls[i]) /\ ~Pending(i)}) = 2
  /\ \E i \in DOMAIN calls : ~Pending(i) /\ ~Result(i).resolved

\* C21: the ids of the messages in the Chat list are pairwise distinct.
C21_DistinctMessageIds ==
  \A k, l \in DOMAIN chat.messages :
    k # l => chat.messages[k].id # chat.messages[l].id

\* C22: the message list of a mounted Chat page is append-only: a step leaves
\* it as it is or appends one message at its end, the messages already in it
\* keeping their place and content; and the greeting is always its first
\* element.  (The list is state of the page instance: a page mounted anew has
\* a list of its own, holding the greeting.)
C22_AppendOnly ==
  /\ [][mounts' = mounts =>
          \/ chat'.messages = chat.messages
          \/ /\ Len(chat'.messages) = Len(chat.messages) + 1
             /\ SubSeq(chat'.messages, 1, Len(chat.messages)) = chat.messages
       ]_vars
  /\ [](chat.messages # <<>> /\ chat.messages[1] = Greeting)

\* A conversation of five messages on which the microphone was toggled and a
\* suggestion clicked afterwards.
C22_Witness ==
  /\ page = "Chat"
  /\ Len(chat.messages) = 5
  /\ chat.isListening
  /\ chat.input \in Suggestions

\* C23: while the input is blank (empty or blanks only) or isLoading is true,
\* a send does nothing: handleSendMessage has no step that changes anything,
\* and no step at all issues a request or appends a user message.  A step that
\* toggles the microphone or puts a text into the input (a suggestion
\* included) appends no message and issues no request.
C23_RejectedSendIsNoOp ==
  [][/\ (page = "Chat" /\ (Trim(chat.input) = EmptyStr \/ chat.isLoading)) =>
          /\ ~ENABLED <<handleSendMessage>>_vars
          /\ mounts' = mounts =>
               /\ Len(calls') = Len(calls)
               /\ \/ chat'.messages = chat.messages
                  \/ chat'.messages[Len(chat'.messages)].type = "assistant"
     /\ ( /\ mounts' = mounts
          /\ \/ chat'.isListening # chat.isListening
             \/ chat'.input # chat.input /\ chat'.input # EmptyStr ) =>
          /\ chat'.messages = chat.messages
          /\ calls' = calls
          /\ chat'.isLoading = chat.isLoading
    ]_vars

\* A request is in flight, the microphone was toggled and a suggestion is in
\* the input: a send can be attempted and changes nothing.
C23_Witness ==
  /\ page = "Chat"
  /\ chat.isLoading
  /\ chat.isListening
  /\ chat.input \in Suggestions
  /\ ENABLED handleSendMessage
  /\ ~ENABLED <<handleSendMessage>>_vars

\* The loads of SystemInfo instance n whose Promise.all has not settled: none
\* of the two requests has been rejected and not both have resolved.
LoadsInFlight(n) ==
  {g \in DOMAIN calls :
     /\ calls[g].page = "SystemInfo" /\ calls[g].inst = n /\ calls[g].group = g
     /\ \A k \in {g, g + 1} : Pending(k) \/ Result(k).resolved
     /\ Pending(g) \/ Pending(g + 1)}

C25_SpinnerEndsWithFirstLoad ==
  /\ [](/\ (page = "Dashboard" /\ dashboard.loading) =>
             \A i \in DOMAIN calls :
               (calls[i].page = "Dashboard" /\ Live(calls[i])) => Pending(i)
        /\ (page = "SystemInfo" /\ sysinfo.loading) =>
             \A g \in DOMAIN calls :
               (calls[g].page = "SystemInfo" /\ Live(calls[g]) /\ calls[g].group = g) =>
                 g \in LoadsInFlight(mounts))
  /\ [][/\ mounts' = mounts + 1 => dashboard'.loading /\ sysinfo'.loading
        /\ mounts' = mounts =>
             /\ ~dashboard.loading => ~dashboard'.loading
             /\ ~sysinfo.loading => ~sysinfo'.loading
             /\ \A i \in DOMAIN calls :
                  (/\ calls[i].page = "Dashboard" /\ Live(calls[i])
                   /\ calls[i].settled = <<>> /\ calls'[i].settled # <<>>) =>
                    ~dashboard'.loading
             /\ \A g \in LoadsInFlight(mounts) :
                  (\E k \in {g, g + 1} :
                     /\ calls[k].settled = <<>> /\ calls'[k].settled # <<>>
                     /\ \/ ~ResultOf(calls'[k]).resolved
                        \/ \A l \in {g, g + 1} : calls'[l].settled # <<>>) =>
                    ~sysinfo'.loading
       ]_vars

\* A SystemInfo page whose first load was rejected: nothing to show, and the
\* spinner is gone.
C25_Witness ==
  /\ page = "SystemInfo"
  /\ ~sysinfo.loading /\ ~sysinfo.refreshing
  /\ sysinfo.systemInfo = Null /\ sysinfo.appStatus = Null
  /\ \E i \in DOMAIN calls :
       calls[i].page = "SystemInfo" /\ Live(calls[i]) /\ ~Pending(i) /\ ~Result(i).resolved

====
